---- MODULE Spec2Model ----
(***************************************************************************)
(* module-acme-logging: the logger built by init() around pino.            *)
(*                                                                         *)
(* The model follows the current index.js (src/unnamed/part_000): getArgs, *)
(* isNotEmpty, fail, hooks.logMethod and init, together with the scoping   *)
(* of AsyncLocalStorage that logMethod reads through als.getStore(), the   *)
(* record the engine writes (formatters, err serializer, redact paths) and *)
(* the test target that posts records back as 'message' events.           *)
(*                                                                         *)
(* JavaScript values are records tagged by k.  A string is a run-length    *)
(* sequence of characters (so that a 10,000 character string is one run);  *)
(* a bigint is its sequence of decimal digits; an object is either inline  *)
(* (props) or a reference (id) to an object of Heap, which is what lets an *)
(* object graph hold a cycle.                                              *)
(***************************************************************************)
EXTENDS Integers, Sequences, FiniteSets, TLC

VARIABLES
    loggers,    \* the loggers created by init, in creation order
    exported,   \* module.exports.logger / module.exports.als
    stack,      \* per call chain and per AsyncLocalStorage: the stores of the active als.run scopes
    last,       \* the outcome of the log call in progress (None when no call is in progress)
    transport   \* per logger: the records written to its test target and not yet posted back

vars == <<loggers, exported, stack, last, transport>>

\* The logical call chains (requests) multiplexed on the one thread.
Chains == {"c1", "c2"}

None == [k |-> "none"]

(***************************************************************************)
(* Strings                                                                 *)
(***************************************************************************)

\* The characters String.prototype.trim removes (those the model uses).
Whitespace == {" ", "\t", "\n"}

RECURSIVE Rle(_)
\* The run-length form of a sequence of characters.
Rle(chars) ==
    IF chars = <<>> THEN <<>>
    ELSE LET rest == Rle(Tail(chars)) IN
         IF rest # <<>> /\ rest[1].c = Head(chars)
         THEN <<[c |-> Head(chars), n |-> rest[1].n + 1]>> \o Tail(rest)
         ELSE <<[c |-> Head(chars), n |-> 1]>> \o rest

\* String concatenation on the run-length form.
Concat(r1, r2) ==
    IF r1 = <<>> THEN r2
    ELSE IF r2 = <<>> THEN r1
    ELSE IF r1[Len(r1)].c = r2[1].c
         THEN SubSeq(r1, 1, Len(r1) - 1)
              \o <<[c |-> r2[1].c, n |-> r1[Len(r1)].n + r2[1].n]>>
              \o Tail(r2)
         ELSE r1 \o r2

\* 'x'.repeat(n), as new Array(n).fill('x').join('') of the README builds it.
Repeat(ch, n) == IF n = 0 THEN <<>> ELSE <<[c |-> ch, n |-> n]>>

\* value.trim().length === 0
IsBlank(runs) == \A i \in 1..Len(runs) : runs[i].c \in Whitespace

\* The UTF-8 length of one character; "U+00E9" stands for a two byte character.
Utf8Len(ch) == IF ch = "U+00E9" THEN 2 ELSE 1

\* The length of a character inside a JSON string literal.
JsonCharLen(ch) == IF ch \in {"\"", "\\", "\n", "\t"} THEN 2 ELSE Utf8Len(ch)

RECURSIVE JsonRunsLen(_)
JsonRunsLen(runs) ==
    IF runs = <<>> THEN 0
    ELSE runs[1].n * JsonCharLen(runs[1].c) + JsonRunsLen(Tail(runs))

DigitChars == <<"0", "1", "2", "3", "4", "5", "6", "7", "8", "9">>

RECURSIVE DecimalDigits(_)
\* The decimal digits of a natural number, most significant first.
DecimalDigits(n) ==
    IF n < 10 THEN <<DigitChars[n + 1]>>
    ELSE DecimalDigits(n \div 10) \o <<DigitChars[(n % 10) + 1]>>

RECURSIVE Grouped(_)
\* (n).toLocaleString() with grouping separators: 10007 -> 10,007.
Grouped(n) ==
    IF n < 1000 THEN DecimalDigits(n)
    ELSE LET low == n % 1000
             pad == IF low < 10 THEN <<"0", "0">> ELSE IF low < 100 THEN <<"0">> ELSE <<>>
         IN  Grouped(n \div 1000) \o <<",">> \o pad \o DecimalDigits(low)

(***************************************************************************)
(* Values                                                                  *)
(***************************************************************************)

Undefined == [k |-> "undefined"]
Null      == [k |-> "null"]
Bool(b)   == [k |-> "boolean", b |-> b]
Num(n)    == [k |-> "number", n |-> n]
BigInt(d) == [k |-> "bigint", digits |-> d]
Str(runs) == [k |-> "string", s |-> runs]
Text(chars) == Str(Rle(chars))
Symbol    == [k |-> "symbol"]
Function  == [k |-> "function"]
\* A Date; its toJSON is the 24 character ISO-8601 string.
DateV(t)  == [k |-> "date", t |-> t]
\* An Error: message and stack are not enumerable, own holds the enumerable
\* properties; by names the place that constructed it.
Err(runs, by, own) == [k |-> "error", message |-> runs, by |-> by, own |-> own]
Obj(props) == [k |-> "object", props |-> props]
Ref(id)    == [k |-> "ref", id |-> id]
Arr(items) == [k |-> "array", items |-> items]
\* An accessor property whose getter throws.
ThrowingGetter == [k |-> "getter"]

\* The objects with an identity: a self reference, a cycle of two, and an
\* object with an enumerable accessor that throws.
Heap(id) ==
    CASE id = "circ"  -> [foo |-> Text(<<"b">>), context |-> Ref("circ")]
      [] id = "ping"  -> [pong |-> Ref("pong")]
      [] id = "pong"  -> [ping |-> Ref("ping")]
      [] id = "boom"  -> [boom |-> ThrowingGetter]

\* typeof value
TypeOf(v) ==
    CASE v.k \in {"date", "error", "object", "ref", "array", "null"} -> "object"
      [] OTHER -> v.k

InstanceOfDate(v)  == v.k = "date"
InstanceOfError(v) == v.k = "error"

RECURSIVE DecimalString(_)
\* String(i) of an array index.
DecimalString(n) ==
    IF n < 10 THEN DigitChars[n + 1]
    ELSE DecimalString(n \div 10) \o DigitChars[(n % 10) + 1]

RECURSIVE IndexProps(_, _)
\* The own enumerable properties of a string: its characters by index.
IndexProps(runs, from) ==
    IF runs = <<>> THEN <<>>
    ELSE LET r == runs[1]
             rest == IF r.n = 1 THEN Tail(runs)
                     ELSE <<[c |-> r.c, n |-> r.n - 1]>> \o Tail(runs)
         IN  (DecimalString(from) :> Str(<<[c |-> r.c, n |-> 1]>>))
             @@ IndexProps(rest, from + 1)

\* The own enumerable properties of a value, as Object.keys and object
\* spread see them (keys to values or accessors).
OwnProps(v) ==
    CASE v.k = "object" -> v.props
      [] v.k = "ref"    -> Heap(v.id)
      [] v.k = "error"  -> v.own
      [] v.k = "string" -> IndexProps(v.s, 0)
      [] v.k = "array"  -> [key \in {DecimalString(i - 1) : i \in 1..Len(v.items)} |->
                               LET i == CHOOSE j \in 1..Len(v.items) :
                                            DecimalString(j - 1) = key
                               IN  v.items[i]]
      [] OTHER          -> <<>>

\* Whether a value is truthy (the left operand of || is kept).
Truthy(v) ==
    CASE v.k \in {"undefined", "null"} -> FALSE
      [] v.k = "boolean" -> v.b
      [] v.k = "number"  -> v.n # 0
      [] v.k = "bigint"  -> v.digits # <<"0">>
      [] v.k = "string"  -> v.s # <<>>
      [] OTHER -> TRUE

(***************************************************************************)
(* safe-stable-stringify, as far as its length goes                        *)
(***************************************************************************)

\* What JSON leaves out of an object and writes as null in an array.
Unserialisable(v) == v.k \in {"undefined", "function", "symbol", "getter"}

RECURSIVE JsonLen(_, _)
RECURSIVE JsonPropsLen(_, _, _)

\* The byte length of the members of an object, separators included.
JsonPropsLen(props, keys, path) ==
    IF keys = {} THEN 0
    ELSE LET key == CHOOSE x \in keys : TRUE
             rest == JsonPropsLen(props, keys \ {key}, path)
             here == Len(key) + 3 + JsonLen(props[key], path)
         IN  IF rest = 0 THEN here ELSE here + 1 + rest

\* Buffer.byteLength(stringify(v)) for a value v met below the objects of path.
JsonLen(v, path) ==
    CASE v.k \in {"undefined", "function", "symbol", "getter", "null"} -> 4
      [] v.k = "boolean" -> IF v.b THEN 4 ELSE 5
      [] v.k = "number"  -> Len(DecimalDigits(v.n))
      [] v.k = "bigint"  -> Len(v.digits)
      [] v.k = "string"  -> 2 + JsonRunsLen(v.s)
      [] v.k = "date"    -> 26
      [] v.k = "ref" /\ v.id \in path -> 12      \* "[Circular]"
      [] v.k = "array"   ->
            LET RECURSIVE Items(_)
                Items(i) == IF i > Len(v.items) THEN 0
                            ELSE JsonLen(v.items[i], path) + Items(i + 1)
            IN  2 + Items(1) + (IF v.items = <<>> THEN 0 ELSE Len(v.items) - 1)
      [] OTHER ->
            LET props == OwnProps(v)
                keys  == {key \in DOMAIN props : ~Unserialisable(props[key])}
                below == IF v.k = "ref" THEN path \cup {v.id} ELSE path
            IN  2 + JsonPropsLen(props, keys, below)

RECURSIVE StringifyThrows(_, _)
\* Whether stringify(v) reads an accessor that throws.
StringifyThrows(v, path) ==
    CASE v.k = "getter" -> TRUE
      [] v.k = "ref" /\ v.id \in path -> FALSE
      [] v.k \in {"object", "ref", "error", "array"} ->
            LET props == OwnProps(v)
                below == IF v.k = "ref" THEN path \cup {v.id} ELSE path
            IN  \E key \in DOMAIN props : StringifyThrows(props[key], below)
      [] OTHER -> FALSE

\* Buffer.byteLength(stringify([fields, message, ...])).
ArrayJsonLen(arr) ==
    LET RECURSIVE Sum(_)
        Sum(i) == IF i > Len(arr) THEN 0 ELSE JsonLen(arr[i], {}) + Sum(i + 1)
    IN  2 + Sum(1) + (IF Len(arr) = 0 THEN 0 ELSE Len(arr) - 1)

\* The marker stringify writes in the place of a reference to an object it
\* is already inside.
CircularMarker ==
    Text(<<"[", "C", "i", "r", "c", "u", "l", "a", "r", "]">>)

RECURSIVE stringify_early(_, _)
\* stringify, were it to write the marker for every object with an identity
\* met inside another one.
stringify_early(v, path) ==
    CASE v.k = "ref" /\ path # {} -> CircularMarker
      [] v.k \in {"object", "ref", "error"} ->
            LET props == OwnProps(v)
                keys  == {key \in DOMAIN props : ~Unserialisable(props[key])}
                below == IF v.k = "ref" THEN path \cup {v.id} ELSE path
            IN  Obj([key \in keys |-> stringify_early(props[key], below)])
      [] v.k = "array" ->
            Arr([i \in 1..Len(v.items) |->
                    IF Unserialisable(v.items[i]) THEN Null
                    ELSE stringify_early(v.items[i], path)])
      [] OTHER -> v

RECURSIVE stringify(_, _)
\* The structure stringify(v) writes for a value v met below the objects of
\* path: the members JSON keeps, and the marker where v is an object of path.
stringify(v, path) ==
    CASE v.k = "ref" /\ v.id \in path -> CircularMarker
      [] v.k \in {"object", "ref", "error"} ->
            LET props == OwnProps(v)
                keys  == {key \in DOMAIN props : ~Unserialisable(props[key])}
                below == IF v.k = "ref" THEN path \cup {v.id} ELSE path
            IN  Obj([key \in keys |-> stringify(props[key], below)])
      [] v.k = "array" ->
            Arr([i \in 1..Len(v.items) |->
                    IF Unserialisable(v.items[i]) THEN Null
                    ELSE stringify(v.items[i], path)])
      [] OTHER -> v

(***************************************************************************)
(* getArgs, isNotEmpty, fail                                               *)
(***************************************************************************)

EmptyLogMessage ==
    Rle(<<"E", "m", "p", "t", "y", " ", "l", "o", "g", " ",
          "m", "e", "s", "s", "a", "g", "e">>)

fail(message) == Obj([err |-> Err(message, "fail", <<>>)])

\* isNotEmpty without the trim: only the empty string counts as empty.
isNotEmpty_noTrim(value) ==
    IF value.k = "undefined" THEN FALSE
    ELSE IF value.k = "null" THEN FALSE
    ELSE IF TypeOf(value) = "string" /\ value.s = <<>> THEN FALSE
    ELSE IF TypeOf(value) = "object" /\ DOMAIN OwnProps(value) = {} THEN FALSE
    ELSE TRUE

isNotEmpty(value) ==
    IF value.k = "undefined" THEN FALSE
    ELSE IF value.k = "null" THEN FALSE
    ELSE IF TypeOf(value) = "string" /\ IsBlank(value.s) THEN FALSE
    ELSE IF TypeOf(value) = "object" /\ DOMAIN OwnProps(value) = {} THEN FALSE
    ELSE TRUE

\* The chain without the two branches that wrap a second argument.
resolveArgs_secondAsIs(inputArgs) ==
    IF Len(inputArgs) >= 2 THEN SubSeq(inputArgs, 1, 2)
    ELSE IF Len(inputArgs) = 1 /\ TypeOf(inputArgs[1]) \in {"boolean", "number", "string"}
        THEN inputArgs
    ELSE IF Len(inputArgs) = 1 /\ TypeOf(inputArgs[1]) = "bigint"
        THEN <<Str(Rle(inputArgs[1].digits))>>
    ELSE IF Len(inputArgs) = 1 /\ InstanceOfDate(inputArgs[1])
        THEN <<Undefined, Obj([ts |-> inputArgs[1]])>>
    ELSE IF Len(inputArgs) = 1 /\ InstanceOfError(inputArgs[1])
        THEN <<Undefined, Obj([err |-> inputArgs[1]])>>
    ELSE IF Len(inputArgs) = 1 THEN <<Undefined>> \o inputArgs
    ELSE inputArgs

\* The array the if/else chain of getArgs builds, before the emptiness test.
resolveArgs(inputArgs) ==
    IF Len(inputArgs) >= 2 /\ InstanceOfDate(inputArgs[2])
        THEN <<inputArgs[1], Obj([ts |-> inputArgs[2]])>>
    ELSE IF Len(inputArgs) >= 2 /\ InstanceOfError(inputArgs[2])
        THEN <<inputArgs[1], Obj([err |-> inputArgs[2]])>>
    ELSE IF Len(inputArgs) >= 2 THEN SubSeq(inputArgs, 1, 2)
    ELSE IF Len(inputArgs) = 1 /\ TypeOf(inputArgs[1]) \in {"boolean", "number", "string"}
        THEN inputArgs
    ELSE IF Len(inputArgs) = 1 /\ TypeOf(inputArgs[1]) = "bigint"
        THEN <<Str(Rle(inputArgs[1].digits))>>
    ELSE IF Len(inputArgs) = 1 /\ InstanceOfDate(inputArgs[1])
        THEN <<Undefined, Obj([ts |-> inputArgs[1]])>>
    ELSE IF Len(inputArgs) = 1 /\ InstanceOfError(inputArgs[1])
        THEN <<Undefined, Obj([err |-> inputArgs[1]])>>
    ELSE IF Len(inputArgs) = 1 THEN <<Undefined>> \o inputArgs
    ELSE inputArgs

\* getArgs, were it to keep the arguments only when none of them is empty.
getArgs_every(inputArgs) ==
    LET args == resolveArgs(inputArgs)
    IN  IF args # <<>> /\ \A i \in 1..Len(args) : isNotEmpty(args[i])
        THEN args
        ELSE <<Undefined, fail(EmptyLogMessage)>>

getArgs(inputArgs) ==
    LET args == resolveArgs(inputArgs)
    IN  IF \E i \in 1..Len(args) : isNotEmpty(args[i])
        THEN args
        ELSE <<Undefined, fail(EmptyLogMessage)>>

\* array[i - 1] of JavaScript: undefined past the end.
At(array, i) == IF i <= Len(array) THEN array[i] ELSE Undefined

(***************************************************************************)
(* init and hooks.logMethod                                                *)
(***************************************************************************)

\* const maxSize = options?.maxSize || 10000
DefaultMaxSize == 10000

\* init(): no argument gives the default parameter { machine: true }.
DefaultOptions == [machine |-> Bool(TRUE)]

\* options?.name: undefined when the option is not supplied.
Option(options, name) == IF name \in DOMAIN options THEN options[name] ELSE Undefined

maxSizeOf(options) ==
    IF Truthy(Option(options, "maxSize")) THEN Option(options, "maxSize").n
    ELSE DefaultMaxSize

\* { ...value }: the own enumerable properties, each read through its getter.
Spread(v) == OwnProps(v)

SpreadThrows(v) == \E key \in DOMAIN OwnProps(v) : OwnProps(v)[key].k = "getter"

\* The merge with the store's values winning.
mergeContext_storeWins(store, ctx) == Spread(store) @@ Spread(ctx)

\* { ...store, ...ctx }: the keys of both, ctx winning.
mergeContext(store, ctx) == Spread(ctx) @@ Spread(store)

OversizeMessage(size, maxSize) ==
    Concat(Concat(Concat(Concat(
        Rle(<<"L", "o", "g", " ", "r", "e", "c", "o", "r", "d", " ",
              "s", "i", "z", "e", " ", "o", "f", " ">>),
        Rle(Grouped(size))),
        Rle(<<" ", "b", "y", "t", "e", "s", " ", "e", "x", "c", "e", "e", "d", "s", " ",
              "m", "a", "x", "i", "m", "u", "m", " ", "o", "f", " ">>)),
        Rle(Grouped(maxSize))),
        Rle(<<" ", "b", "y", "t", "e", "s">>))

\* The size test with the ceiling itself counted as too large.
isOversize_atLeast(size, maxSize) == size >= maxSize

\* The size test of logMethod.
isOversize(size, maxSize) == size > maxSize

\* The replacement of an oversize record, were it to keep the record's
\* fields and message beside the diagnostic.
applyArgs_keepsFields(outputArgs, size, maxSize) ==
    IF isOversize(size, maxSize)
    THEN <<Obj(fail(OversizeMessage(size, maxSize)).props @@ outputArgs[1].props),
           outputArgs[2]>>
    ELSE outputArgs

\* What the log call does with the record once it is measured: the arguments
\* it applies the engine's method to.
applyArgs(outputArgs, size, maxSize) ==
    IF isOversize(size, maxSize)
    THEN <<fail(OversizeMessage(size, maxSize))>>
    ELSE outputArgs

\* hooks.logMethod(inputArgs, method, level) with getStore the value of
\* als.getStore(): either the exception that leaves it, or the arguments
\* method is applied to.
logMethod(inputArgs, getStore, maxSize) ==
    LET pair    == getArgs(inputArgs)
        message == At(pair, 1)
        ctx     == At(pair, 2)
        store   == IF Truthy(getStore) THEN getStore ELSE Obj(<<>>)
    IN  IF SpreadThrows(store) \/ SpreadThrows(ctx) THEN [k |-> "threw", at |-> "spread"]
        ELSE LET outputArgs == <<Obj(mergeContext(store, ctx)), message>>
             IN  IF \E i \in 1..2 : StringifyThrows(outputArgs[i], {})
                 THEN [k |-> "threw", at |-> "stringify"]
                 ELSE LET size == ArrayJsonLen(outputArgs)
                      IN  [k |-> "applied", size |-> size,
                           args |-> applyArgs(outputArgs, size, maxSize)]

\* The message the engine writes for method(fields, message): the message
\* given, or fields.err.message when none is given and fields.err is an error.
EngineMsg(args) ==
    IF At(args, 2).k # "undefined" THEN At(args, 2)
    ELSE IF "err" \in DOMAIN OwnProps(args[1]) /\ OwnProps(args[1]).err.k = "error"
         THEN Str(OwnProps(args[1]).err.message)
         ELSE Undefined

(***************************************************************************)
(* The record the engine writes: formatters.log, the err serializer and    *)
(* the redaction                                                           *)
(***************************************************************************)

\* formatters.log(object): const { error, ...context } = object;
\* return { err: error, ...context }
formatLog(object) ==
    LET error   == IF "error" \in DOMAIN object THEN object.error ELSE Undefined
        context == [key \in DOMAIN object \ {"error"} |-> object[key]]
    IN  context @@ [err |-> error]

\* The engine's serializer of the err key: an Error is written with its
\* type, message and stack and its enumerable properties.
errSerializer(v) ==
    IF v.k # "error" THEN v
    ELSE Obj(v.own @@ [type    |-> Text(<<"E", "r", "r", "o", "r">>),
                       message |-> Str(v.message),
                       stack   |-> Text(<<".", ".", ".">>)])

\* redact.paths, each path as its segments, "*" standing for any key or index.
RedactPaths ==
    { <<"password">>, <<"email">>,
      <<"*", "password">>, <<"*", "email">>,
      <<"*", "*", "password">>, <<"*", "*", "email">>,
      <<"req", "headers", "*">>,
      <<"request", "headers", "*">>,
      <<"res", "headers", "*">>,
      <<"resp", "headers", "*">>,
      <<"response", "headers", "*">>,
      <<"res", "req", "headers", "*">>,
      <<"resp", "req", "headers", "*">>,
      <<"response", "request", "headers", "*">>,
      <<"err", "req", "headers", "*">>,
      <<"err", "request", "headers", "*">>,
      <<"err", "res", "headers", "*">>,
      <<"err", "resp", "headers", "*">>,
      <<"err", "response", "headers", "*">>,
      <<"err", "res", "req", "headers", "*">>,
      <<"err", "resp", "req", "headers", "*">>,
      <<"err", "response", "request", "headers", "*">> }

\* options?.redact?.paths || [], the paths as their segments.
PathList(paths) == [k |-> "paths", paths |-> paths]
userPaths(options) ==
    IF "redact" \in DOMAIN options /\ "paths" \in DOMAIN OwnProps(options.redact)
    THEN OwnProps(options.redact).paths.paths
    ELSE {}

\* [...].concat(options?.redact?.paths || [])
redactPathsOf(options) == RedactPaths \cup userPaths(options)

\* The censor the engine writes in the place of a redacted value.
Censor == Text(<<"[", "R", "e", "d", "a", "c", "t", "e", "d", "]">>)

RECURSIVE redact(_, _)
\* The structure with the values at the paths replaced by the censor.
redact(v, paths) ==
    LET Below(key) == {Tail(path) : path \in {q \in paths : q[1] \in {key, "*"}}}
        Member(key, value) ==
            IF <<>> \in Below(key) THEN Censor
            ELSE IF Below(key) = {} THEN value
            ELSE redact(value, Below(key))
    IN  CASE v.k = "object" -> Obj([key \in DOMAIN v.props |-> Member(key, v.props[key])])
          [] v.k = "array"  ->
                Arr([i \in 1..Len(v.items) |-> Member(DecimalString(i - 1), v.items[i])])
          [] OTHER -> v

\* What the engine serializes of the fields: formatters.log, then the err
\* serializer on the err key, the members JSON keeps.
serialized(fields) ==
    LET object == formatLog(fields)
        keys   == {key \in DOMAIN object : ~Unserialisable(object[key])}
    IN  stringify(Obj([key \in keys |->
                          IF key = "err" THEN errSerializer(object[key])
                          ELSE object[key]]), {})

\* The ctx of the record written for method(fields, message) by a logger of
\* these options.
ctxOf(options, fields) == redact(serialized(fields), redactPathsOf(options))

\* formatters.level(label, number): the numbers of the engine's levels.
LevelNumber ==
    [trace |-> 10, debug |-> 20, info |-> 30, warn |-> 40, error |-> 50, fatal |-> 60]

\* The labels of the levels as the strings options give.
LevelText ==
    [trace |-> Rle(<<"t", "r", "a", "c", "e">>), debug |-> Rle(<<"d", "e", "b", "u", "g">>),
     info  |-> Rle(<<"i", "n", "f", "o">>),      warn  |-> Rle(<<"w", "a", "r", "n">>),
     error |-> Rle(<<"e", "r", "r", "o", "r">>), fatal |-> Rle(<<"f", "a", "t", "a", "l">>)]

\* configureTestLogger: level: options?.test?.level || 'info'
testLevelOf(options) ==
    LET level == IF "level" \in DOMAIN OwnProps(Option(options, "test"))
                 THEN OwnProps(Option(options, "test")).level ELSE Undefined
    IN  IF Truthy(level)
        THEN CHOOSE label \in DOMAIN LevelText : LevelText[label] = level.s
        ELSE "info"

\* The record the engine writes for method(fields, message) at a level:
\* level and severity of formatters.level, the fields under ctx, the msg.
Record(options, level, args) ==
    [level    |-> LevelNumber[level],
     severity |-> level,
     ctx      |-> ctxOf(options, args[1].props),
     msg      |-> EngineMsg(args)]

\* What a log call adds to the transport of its logger's test target: the
\* record, when the hook applied method, the target is configured and the
\* record is at or above the target's level.
written(options, level, result) ==
    IF /\ result.k = "applied"
       /\ Truthy(Option(options, "test"))
       /\ LevelNumber[level] >= LevelNumber[testLevelOf(options)]
    THEN <<Record(options, level, result.args)>>
    ELSE <<>>

(***************************************************************************)
(* AsyncLocalStorage                                                       *)
(***************************************************************************)

\* An AsyncLocalStorage instance: 0 is one the caller constructs and may
\* inject, i > 0 is the one the i-th init call constructs for itself.
Als(id) == [k |-> "als", id |-> id]
UserAls == 0

\* getStore giving the stores of all the active scopes of the instance merged,
\* the inner ones winning.
getStore_merged(frames, als) ==
    LET RECURSIVE Merged(_)
        Merged(i) ==
            IF i = 0 THEN <<>>
            ELSE IF frames[i].als = als
                 THEN OwnProps(frames[i].store) @@ Merged(i - 1)
                 ELSE Merged(i - 1)
    IN  IF \A i \in 1..Len(frames) : frames[i].als # als THEN Undefined
        ELSE Obj(Merged(Len(frames)))

\* als.getStore() in a call chain whose active als.run scopes are frames
\* (outermost first): the store of the innermost scope of this instance.
getStore(frames, als) ==
    LET mine == {i \in 1..Len(frames) : frames[i].als = als}
    IN  IF mine = {} THEN Undefined
        ELSE frames[CHOOSE i \in mine : \A j \in mine : j <= i].store

\* The store kept in one place for all the chains: that of any chain with an
\* active scope of the instance.
storeAtCall_shared(chain, als) ==
    IF \E c \in Chains : getStore(stack[c], als) # Undefined
    THEN getStore(stack[CHOOSE c \in Chains : getStore(stack[c], als) # Undefined], als)
    ELSE Undefined

\* als.getStore() as logMethod of a logger bound to als calls it in chain.
storeAtCall(chain, als) == getStore(stack[chain], als)

(***************************************************************************)
(* Bounds and inputs                                                       *)
(***************************************************************************)

MaxLoggers == 2     \* init calls
MaxScopes  == 2     \* als.run scopes active at once, over all chains

Levels == {"trace", "debug", "info", "warn", "error", "fatal"}

\* new Array(10000).fill('x').join('') of the README
ReadmeLength == 10000

Hi    == Text(<<"h", "i">>)
Bar   == Text(<<"b">>)
Blank == Text(<<" ", "\t">>)
Big   == Str(Repeat("x", ReadmeLength))
Accented == Text(<<"U+00E9", "\"">>)
ReadmeBigInt ==
    BigInt(<<"1", "2", "3", "4", "5", "6", "7", "8", "9", "0",
             "1", "2", "3", "4", "5", "6", "7", "8", "9", "0">>)
OhNoes == Err(Rle(<<"O", "h">>), "caller", <<>>)
Wibble == Err(Rle(<<"O", "h">>), "caller", [wibble |-> Num(123)])

FooBar   == Obj([foo |-> Bar])
TracerFoo == Obj([tracer |-> Num(123), foo |-> Text(<<"z">>)])
A1       == Obj([a |-> Num(1)])
WithFn   == Obj([foo |-> Bar, fn |-> Function])
BigObj   == Obj([x |-> Big])
ErrorKey == Obj([error |-> OhNoes])

\* The contexts of the README's redaction test, and one nested deeper.
Secret      == Text(<<"s">>)
Credentials == Obj([password |-> Secret, email |-> Secret, name |-> Bar])
Headers     == Obj([authorization |-> Secret])
RedactCtx ==
    Obj([password |-> Secret, email |-> Secret, name |-> Bar,
         user     |-> Credentials,
         users    |-> Arr(<<Credentials>>),
         request  |-> Obj([headers |-> Headers]),
         response |-> Obj([request |-> Obj([headers |-> Headers])])])
DeepCtx == Obj([a |-> Obj([b |-> Obj([c |-> Credentials])])])

\* The names under which requests and responses are logged.
RequestAliases  == {"req", "request"}
ResponseAliases == {"res", "resp", "response"}

\* The places of a headers block: a request, a response, the request of a
\* response.
HeaderHolders ==
    {<<q>> : q \in RequestAliases} \cup {<<r>> : r \in ResponseAliases}
    \cup {<<r, q>> : r \in ResponseAliases, q \in RequestAliases}

RECURSIVE Nest(_, _)
\* { k1: { k2: ... value } }
Nest(keys, value) ==
    IF keys = <<>> THEN value ELSE Obj(keys[1] :> Nest(Tail(keys), value))

\* The contexts with a headers block: in each place, and in each place on
\* an error logged as err.
HeaderCtxs ==
    {Nest(holder \o <<"headers">>, Headers) : holder \in HeaderHolders}
    \cup {Obj([err |-> Err(Rle(<<"O", "h">>), "caller",
                          Nest(holder \o <<"headers">>, Headers).props)]) :
             holder \in HeaderHolders}

\* An error under error and another under err.
BothErrors == Obj([error |-> OhNoes, err |-> Wibble])

\* The contexts that try the engine's formatter and redaction.
EngineValues == {RedactCtx, DeepCtx, BothErrors} \cup HeaderCtxs

\* The values a log call is given first.
FirstValues ==
    {Undefined, Null, Text(<<>>), Blank, Hi, Big, Accented, Num(0), Num(42),
     Bool(FALSE), Bool(TRUE), ReadmeBigInt, Symbol, Function, DateV(0), OhNoes,
     Obj(<<>>), FooBar, Ref("circ"), Ref("boom")}

\* The values a log call is given second.
SecondValues ==
    {Undefined, Null, Text(<<>>), Blank, Hi, Num(42), ReadmeBigInt, Symbol, Function,
     DateV(0), OhNoes, Wibble, Obj(<<>>), FooBar, A1, WithFn, BigObj, ErrorKey,
     Ref("circ"), Ref("ping"), Ref("boom")}

\* The argument lists of the log calls: none, one, two and three arguments.
AllCalls ==
    {<<>>}
    \cup {<<v>> : v \in FirstValues \cup SecondValues}
    \cup {<<v, w>> : v \in FirstValues, w \in SecondValues}
    \cup {<<Hi, w, FooBar>> : w \in {FooBar, DateV(0), Undefined}}
    \cup {<<v>> : v \in EngineValues}
    \cup {<<Hi, v>> : v \in EngineValues}

\* The stores als.run is given.
AllStores == {TracerFoo, A1, BigObj, Ref("boom"), Null, Hi, Obj([err |-> Wibble])}

\* The options init is given.
AllOptions ==
    {DefaultOptions}
    \cup {[human |-> Bool(TRUE), maxSize |-> m] : m \in {Num(0), Num(10), Num(30)}}
    \cup {[sync |-> Bool(TRUE), als |-> Als(UserAls)]}
    \cup {[machine |-> Bool(TRUE), redact |-> Obj([paths |-> PathList({<<"foo">>})])]}

\* The calls, stores and options of the runs in which loggers, chains and
\* scopes interleave.
FewCalls   == {<<Hi>>, <<Hi, FooBar>>}
FewStores  == {TracerFoo, A1}
FewOptions == {DefaultOptions, [human |-> Bool(TRUE), als |-> Als(UserAls)]}
FewLevels  == {"info"}

(***************************************************************************)
(* The state machine                                                       *)
(***************************************************************************)

Init ==
    /\ loggers = <<>>
    /\ exported = [logger |-> 0, als |-> Undefined]
    /\ stack = [c \in Chains |-> <<>>]
    /\ last = None
    /\ transport = <<>>

ActiveScopes ==
    LET RECURSIVE Count(_)
        Count(cs) == IF cs = {} THEN 0
                     ELSE LET c == CHOOSE x \in cs : TRUE
                          IN  Len(stack[c]) + Count(cs \ {c})
    IN  Count(Chains)

\* The AsyncLocalStorage instances that exist.
KnownAls == {UserAls} \cup {loggers[i].als : i \in 1..Len(loggers)}

\* const sync = options?.sync || Boolean(options?.test) || false
syncOf(options) == Truthy(Option(options, "sync")) \/ Truthy(Option(options, "test"))

\* const als = options?.als || new AsyncLocalStorage()
alsOf(options, fresh) ==
    IF Truthy(Option(options, "als")) THEN Option(options, "als").id ELSE fresh

\* configureMachineLogger(), configureHumanLogger(), configureTestLogger()
configureMachineLogger_default(options) ==
    IF "machine" \notin DOMAIN options \/ Truthy(Option(options, "machine"))
    THEN <<"pino/file">> ELSE <<>>
configureMachineLogger(options) ==
    IF Truthy(Option(options, "machine")) THEN <<"pino/file">> ELSE <<>>
configureHumanLogger(options) ==
    IF Truthy(Option(options, "human")) THEN <<"pino-pretty">> ELSE <<>>
configureTestLogger(options) ==
    IF Truthy(Option(options, "test")) THEN <<"post-message-transport">> ELSE <<>>

targetsOf(options) ==
    configureMachineLogger(options) \o configureHumanLogger(options)
        \o configureTestLogger(options)

\* function init(options = { machine: true }): the options of a call, the
\* default standing for an argument that is not given.
optionsOf(argument) == IF argument = Undefined THEN DefaultOptions ELSE argument

\* init(options)
init(argument) ==
    /\ last = None
    /\ LET options == optionsOf(argument)
           logger  == [options |-> options,
                       maxSize |-> maxSizeOf(options),
                       als     |-> alsOf(options, Len(loggers) + 1),
                       sync    |-> syncOf(options),
                       targets |-> targetsOf(options)]
       IN  /\ loggers' = Append(loggers, logger)
           /\ exported' = [logger |-> Len(loggers) + 1, als |-> Als(logger.als)]
    /\ transport' = Append(transport, <<>>)
    /\ UNCHANGED <<stack, last>>

\* als.run(store, callback) in a chain: the callback's extent begins.
run(chain, als, store) ==
    /\ last = None
    /\ als \in KnownAls
    /\ stack' = [stack EXCEPT ![chain] =
                    Append(@, [als |-> als, store |-> store, ended |-> None])]
    /\ UNCHANGED <<loggers, exported, last, transport>>

\* The callback of the innermost als.run of a chain returns.  ended records,
\* on the enclosing scope, the store of the scope nested in it that ended.
exit(chain) ==
    /\ last = None
    /\ stack[chain] # <<>>
    /\ LET rest == SubSeq(stack[chain], 1, Len(stack[chain]) - 1)
       IN  stack' = [stack EXCEPT ![chain] =
                        IF rest = <<>> THEN rest
                        ELSE [rest EXCEPT ![Len(rest)].ended =
                                        stack[chain][Len(stack[chain])].store]]
    /\ UNCHANGED <<loggers, exported, last, transport>>

\* The als of a logger's hooks.logMethod: the constant of its own init call
\* (and, in its place, the module's exported als).
boundAls_exported(logger) == exported.als.id
boundAls(logger) == loggers[logger].als

\* logger[level](...inputArgs) in a chain: pino calls hooks.logMethod, which
\* throws or applies the engine's method.
log(logger, chain, inputArgs, level) ==
    /\ last = None
    /\ logger \in 1..Len(loggers)
    /\ LET store  == storeAtCall(chain, boundAls(logger))
           result == logMethod(inputArgs, store, loggers[logger].maxSize)
       IN  /\ last' = [k |-> "call", logger |-> logger, chain |-> chain,
                       level |-> level, inputArgs |-> inputArgs, store |-> store,
                       result |-> result]
           /\ transport' = [transport EXCEPT ![logger] =
                               @ \o written(loggers[logger].options, level, result)]
    /\ UNCHANGED <<loggers, exported, stack>>

\* The log call is over: method has returned, or the exception has reached
\* the caller.
return ==
    /\ last # None
    /\ last' = None
    /\ UNCHANGED <<loggers, exported, stack, transport>>

\* Loggers, chains and scopes interleaving.
Next ==
    \/ \E options \in FewOptions : Len(loggers) < MaxLoggers /\ init(options)
    \/ \E chain \in Chains, als \in 0..MaxLoggers, store \in FewStores :
          ActiveScopes < MaxScopes /\ run(chain, als, store)
    \/ \E chain \in Chains : exit(chain)
    \/ \E logger \in 1..MaxLoggers, chain \in Chains, inputArgs \in FewCalls,
          level \in FewLevels : log(logger, chain, inputArgs, level)
    \/ return

Spec == Init /\ [][Next]_vars

\* One logger and one chain, over every option, store and argument list.
CallNext ==
    \/ \E options \in AllOptions : loggers = <<>> /\ init(options)
    \/ \E store \in AllStores :
          /\ loggers # <<>>
          /\ stack["c1"] = <<>>
          /\ run("c1", loggers[1].als, store)
    \/ exit("c1")
    \/ \E inputArgs \in AllCalls, level \in Levels : log(1, "c1", inputArgs, level)
    \/ return

CallSpec == Init /\ [][CallNext]_vars

\* The logger a transport's 'message' event is emitted on: the logger of the
\* init call that made the transport.
emitterOf_exported(logger) == exported.logger
emitterOf(logger) == logger

\* transport.on('message', (...args) => logger.emit('message', ...args)):
\* the target of a logger's transport posts the oldest record it was
\* written, and the logger emits it to its subscribers.
message(logger) ==
    /\ last = None
    /\ logger \in 1..Len(loggers)
    /\ transport[logger] # <<>>
    /\ last' = [k |-> "message", logger |-> emitterOf(logger),
                record |-> Head(transport[logger])]
    /\ transport' = [transport EXCEPT ![logger] = Tail(@)]
    /\ UNCHANGED <<loggers, exported, stack>>

MaxInFlight == 2    \* records written to test targets and not yet posted back

InFlight ==
    LET RECURSIVE Count(_)
        Count(i) == IF i > Len(transport) THEN 0 ELSE Len(transport[i]) + Count(i + 1)
    IN  Count(1)

\* The options, calls and levels of the runs with test targets.
SinkOptions ==
    {Undefined, [test |-> Bool(TRUE)],
     [test |-> Obj([level |-> Str(LevelText["error"])])],
     [machine |-> Bool(FALSE), test |-> Bool(TRUE)]}
SinkCalls  == {<<Hi>>, <<Hi, FooBar>>}
SinkLevels == {"info", "error"}

\* Loggers with test targets: records written and posted back.
SinkNext ==
    \/ \E options \in SinkOptions : Len(loggers) < MaxLoggers /\ init(options)
    \/ \E logger \in 1..MaxLoggers, inputArgs \in SinkCalls, level \in SinkLevels :
          InFlight < MaxInFlight /\ log(logger, "c1", inputArgs, level)
    \/ \E logger \in 1..MaxLoggers : message(logger)
    \/ return

SinkSpec == Init /\ [][SinkNext]_vars

\* The event loop gets to every posted record and every call returns.
SinkLive ==
    /\ SinkSpec
    /\ \A logger \in 1..MaxLoggers : SF_vars(message(logger))
    /\ WF_vars(return)

(***************************************************************************)
(* Properties                                                              *)
(***************************************************************************)

Called  == last.k = "call"
Applied == Called /\ last.result.k = "applied"
Threw   == Called /\ last.result.k = "threw"

\* What the log call in progress handed to the engine: the fields, and the
\* message (undefined when it handed none).
Fields  == last.result.args[1].props
Message == At(last.result.args, 2)

\* The logger and the options of the log call in progress.
Logger  == loggers[last.logger]

\* A context built by fail(): the diagnostic that stands for a record.
IsDiagnostic(props) ==
    /\ "err" \in DOMAIN props
    /\ props.err.k = "error"
    /\ props.err.by = "fail"

\* The pair getArgs made of the arguments of the log call in progress.
Pair == getArgs(last.inputArgs)
ExplicitContext == At(Pair, 2)

\* The ambient context of a chain for an AsyncLocalStorage instance: the
\* properties of the store of its innermost active scope, none when no
\* scope is active or the store is falsy.
AmbientProps(chain, als) ==
    LET RECURSIVE Innermost(_)
        Innermost(i) ==
            IF i = 0 THEN <<>>
            ELSE IF stack[chain][i].als = als
                 THEN (IF Truthy(stack[chain][i].store)
                       THEN OwnProps(stack[chain][i].store) ELSE <<>>)
                 ELSE Innermost(i - 1)
    IN  Innermost(Len(stack[chain]))

\* props is the key-wise union of ambient and explicit, explicit winning.
IsUnion(props, ambient, explicit) ==
    /\ DOMAIN props = DOMAIN ambient \cup DOMAIN explicit
    /\ \A key \in DOMAIN props :
          props[key] = IF key \in DOMAIN explicit THEN explicit[key] ELSE ambient[key]

\* C1: for every log call that is not replaced by a diagnostic record, the
\* context handed to the engine is the key-wise union of the ambient context
\* of the calling chain and the explicit context, and a key of both carries
\* the explicit context's value.
C1_ExplicitWins ==
    (Applied /\ ~IsDiagnostic(Fields)) =>
        IsUnion(Fields, AmbientProps(last.chain, Logger.als), OwnProps(ExplicitContext))

\* The README's case: ambient { tracer: 123, foo: 'z' } and explicit
\* { foo: 'b' } give { tracer: 123, foo: 'b' }.
C1_Witness ==
    /\ Applied
    /\ last.inputArgs = <<Hi, FooBar>>
    /\ last.store = TracerFoo
    /\ Fields = [tracer |-> Num(123), foo |-> Bar]

\* The specification's notion of an empty message and an empty context.
SpecEmptyMessage(v) == v.k = "undefined" \/ (v.k = "string" /\ IsBlank(v.s))
SpecEmptyContext(v) ==
    \/ v.k \in {"undefined", "null"}
    \/ v.k \in {"object", "ref"} /\ DOMAIN OwnProps(v) = {}

\* A log call with no argument, or whose message and context are both empty.
EmptyCall(inputArgs) ==
    \/ inputArgs = <<>>
    \/ /\ SpecEmptyMessage(At(resolveArgs(inputArgs), 1))
       /\ SpecEmptyContext(At(resolveArgs(inputArgs), 2))

EmptyLogError == Err(EmptyLogMessage, "fail", <<>>)

\* The fields of the candidate record: ambient and explicit context merged.
CandidateFields ==
    LET ambient  == AmbientProps(last.chain, Logger.als)
        explicit == OwnProps(ExplicitContext)
    IN  [key \in DOMAIN ambient \cup DOMAIN explicit |->
            IF key \in DOMAIN explicit THEN explicit[key] ELSE ambient[key]]

\* C2 as stated: an empty log call has the normalized pair replaced by the
\* message "Empty log message" and the context { err: Error("Empty log
\* message") }, and the record's message and ctx.err.message both read
\* "Empty log message", whatever the severity and the ambient scope.
C2_AsStated ==
    (Called /\ EmptyCall(last.inputArgs)) =>
        /\ Pair = <<Str(EmptyLogMessage), Obj([err |-> EmptyLogError])>>
        /\ Applied
        /\ IsDiagnostic(Fields)
        /\ Fields.err.message = EmptyLogMessage
        /\ EngineMsg(last.result.args) = Str(EmptyLogMessage)

\* C2, amended: an empty log call has the normalized pair replaced by an
\* undefined message and the context { err: Error("Empty log message") };
\* the record handed to the engine, unless it is oversize, carries that err
\* merged over the ambient context and no message, so that the engine writes
\* err's message "Empty log message" as the record's message.
C2_EmptyLogReported ==
    (Called /\ EmptyCall(last.inputArgs)) =>
        /\ Pair = <<Undefined, Obj([err |-> EmptyLogError])>>
        /\ (Applied /\ last.result.size <= Logger.maxSize) =>
              /\ Message = Undefined
              /\ Fields = CandidateFields
              /\ Fields.err = EmptyLogError
              /\ EngineMsg(last.result.args) = Str(EmptyLogMessage)

\* logger.debug() inside als.run({ tracer: 123, foo: 'z' }, ...).
C2_Witness ==
    /\ Applied
    /\ last.inputArgs = <<>>
    /\ last.level = "debug"
    /\ last.store = TracerFoo
    /\ Fields = [tracer |-> Num(123), foo |-> Text(<<"z">>), err |-> EmptyLogError]
    /\ EngineMsg(last.result.args) = Str(EmptyLogMessage)

\* C3 as stated: whatever the arguments and the ambient store, the log call
\* does not raise and hands exactly one (fields, message) pair to the engine.
C3_NeverRaises ==
    Called =>
        /\ Applied
        /\ Len(last.result.args) \in {1, 2}
        /\ last.result.args[1].k = "object"

\* C4 as stated: with the ceiling the configured maxSize (10000 when none is
\* configured), a record is replaced by the oversize diagnostic exactly when
\* its serialized size exceeds the ceiling, and is handed on unchanged
\* otherwise.
C4_AsStated ==
    Applied =>
        LET ceiling == IF "maxSize" \in DOMAIN Logger.options
                       THEN Logger.options.maxSize.n ELSE DefaultMaxSize
            size    == ArrayJsonLen(<<Obj(CandidateFields), At(Pair, 1)>>)
            text    == OversizeMessage(size, ceiling)
        IN  IF size > ceiling
            THEN /\ Fields = [err |-> Err(text, "fail", <<>>)]
                 /\ EngineMsg(last.result.args) = Str(text)
            ELSE last.result.args = <<Obj(CandidateFields), At(Pair, 1)>>

\* C4, amended: the ceiling is the configured maxSize when it is not 0, and
\* 10000 when none or 0 is configured; a record is replaced by the oversize
\* diagnostic, whose err.message (which the engine writes as the message)
\* names the size and the ceiling, exactly when its serialized size exceeds
\* the ceiling, and is handed on unchanged otherwise.
C4_OversizeReplaced ==
    Applied =>
        LET ceiling == IF "maxSize" \in DOMAIN Logger.options
                          /\ Logger.options.maxSize.n # 0
                       THEN Logger.options.maxSize.n ELSE DefaultMaxSize
            size    == ArrayJsonLen(<<Obj(CandidateFields), At(Pair, 1)>>)
            text    == OversizeMessage(size, ceiling)
        IN  IF size > ceiling
            THEN /\ Fields = [err |-> Err(text, "fail", <<>>)]
                 /\ EngineMsg(last.result.args) = Str(text)
            ELSE last.result.args = <<Obj(CandidateFields), At(Pair, 1)>>

\* The README's case: logger.info of 10,000 characters under the default
\* ceiling is 10,007 bytes.
C4_Witness ==
    /\ Applied
    /\ last.inputArgs = <<Big>>
    /\ "maxSize" \notin DOMAIN Logger.options
    /\ last.result.size = 10007
    /\ Fields.err.message =
          Concat(Rle(<<"L", "o", "g", " ", "r", "e", "c", "o", "r", "d", " ",
                       "s", "i", "z", "e", " ", "o", "f", " ",
                       "1", "0", ",", "0", "0", "7", " ", "b", "y", "t", "e", "s">>),
                 Rle(<<" ", "e", "x", "c", "e", "e", "d", "s", " ",
                       "m", "a", "x", "i", "m", "u", "m", " ", "o", "f", " ",
                       "1", "0", ",", "0", "0", "0", " ", "b", "y", "t", "e", "s">>))
    /\ EngineMsg(last.result.args) = Str(Fields.err.message)

\* C5 as stated: the record that replaces an oversize record does not itself
\* exceed the ceiling.
C5_ReplacementFits ==
    (Applied /\ last.result.size > Logger.maxSize) =>
        ArrayJsonLen(last.result.args) <= Logger.maxSize

\* The log call in progress handed its record on as it is (no oversize
\* replacement).
NotOversize == Applied /\ last.result.size <= Logger.maxSize

\* C6: whatever the interleaving of the chains, a record carries, besides the
\* keys of its explicit context, exactly the keys of the store of the scope
\* active in the chain that made the call, with that store's values, and
\* none when that chain has no active scope.
C6_OwnChainOnly ==
    NotOversize =>
        LET own      == AmbientProps(last.chain, Logger.als)
            explicit == OwnProps(ExplicitContext)
        IN  /\ DOMAIN own \subseteq DOMAIN Fields
            /\ \A key \in DOMAIN Fields \ DOMAIN explicit :
                  key \in DOMAIN own /\ Fields[key] = own[key]

\* Chain c1 is inside als.run({ tracer: 123, foo: 'z' }) and chain c2 inside
\* als.run({ a: 1 }) of the same instance when c2 logs ('hi', { foo: 'b' }).
C6_Witness ==
    /\ Applied
    /\ last.chain = "c2"
    /\ last.inputArgs = <<Hi, FooBar>>
    /\ stack["c1"] = <<[als |-> Logger.als, store |-> TracerFoo, ended |-> None]>>
    /\ stack["c2"] = <<[als |-> Logger.als, store |-> A1, ended |-> None]>>
    /\ Fields = [a |-> Num(1), foo |-> Bar]

\* The scopes of the logger's instance active in the calling chain.
MyScopes == {i \in 1..Len(stack[last.chain]) : stack[last.chain][i].als = Logger.als}

\* A log call sees the store of the innermost scope in place of those of the
\* scopes around it: a key of an outer store alone is not in the record.
C7_Shadowing ==
    (NotOversize /\ MyScopes # {}) =>
        LET frames == stack[last.chain]
            top    == CHOOSE i \in MyScopes : \A j \in MyScopes : j <= i
            inner  == OwnProps(frames[top].store)
        IN  /\ last.store = frames[top].store
            /\ \A i \in MyScopes \ {top} :
                  \A key \in DOMAIN OwnProps(frames[i].store) :
                      \/ key \in DOMAIN OwnProps(ExplicitContext)
                      \/ key \in DOMAIN inner /\ Fields[key] = inner[key]
                      \/ key \notin DOMAIN Fields

\* Scopes are entered and left last in, first out, and the store of a scope
\* that stays active is never changed.
C7_Frames ==
    \A c \in Chains :
        /\ Len(stack'[c]) \in {Len(stack[c]) - 1, Len(stack[c]), Len(stack[c]) + 1}
        /\ \A i \in 1..Len(stack[c]) :
              i <= Len(stack'[c]) =>
                  /\ stack'[c][i].store = stack[c][i].store
                  /\ stack'[c][i].als = stack[c][i].als

\* C7: ambient scopes nest last in, first out; a log call in a nested scope
\* sees the nested store in place of the parent's, and after the nested
\* scope has ended a log call in the parent's extent sees the parent's store
\* as it was.
C7_Lifo == [](C7_Shadowing) /\ [][C7_Frames]_vars

\* A log call in als.run({ tracer: 123, foo: 'z' }) after the nested
\* als.run({ a: 1 }) has ended.
C7_Witness ==
    /\ Applied
    /\ last.inputArgs = <<Hi>>
    /\ stack[last.chain] = <<[als |-> Logger.als, store |-> TracerFoo, ended |-> A1]>>
    /\ Fields = [tracer |-> Num(123), foo |-> Text(<<"z">>)]

\* A message that is not blank, and a context with at least one key.
MeaningfulMessage(v) ==
    /\ v.k \notin {"undefined", "null"}
    /\ ~(v.k = "string" /\ IsBlank(v.s))
    /\ ~(v.k \in {"object", "ref", "date", "error"} /\ DOMAIN OwnProps(v) = {})
MeaningfulContext(v) == DOMAIN OwnProps(v) # {}

\* C8 as stated: the normalized pair has a non-blank message or a context
\* with at least one key.
C8_NeverBothEmpty ==
    Called => MeaningfulMessage(At(Pair, 1)) \/ MeaningfulContext(At(Pair, 2))

\* What isNotEmpty rejects: undefined, null, a blank string, an object
\* without enumerable keys.
CountsAsEmpty(v) ==
    \/ v.k \in {"undefined", "null"}
    \/ v.k = "string" /\ IsBlank(v.s)
    \/ v.k \in {"object", "ref", "date", "error", "array"} /\ DOMAIN OwnProps(v) = {}

WrappedDate(date)   == Obj([ts |-> date])
WrappedError(error) == Obj([err |-> error])

\* The Date and Error rules of C9.
C9_Wrapping(a) ==
    /\ (Len(a) >= 2 /\ a[2].k = "date")  => Pair = <<a[1], WrappedDate(a[2])>>
    /\ (Len(a) >= 2 /\ a[2].k = "error") => Pair = <<a[1], WrappedError(a[2])>>
    /\ (Len(a) = 1 /\ a[1].k = "date")   => Pair = <<Undefined, WrappedDate(a[1])>>
    /\ (Len(a) = 1 /\ a[1].k = "error")  => Pair = <<Undefined, WrappedError(a[1])>>

\* C9 as stated: a Date or Error is wrapped by position, and any other second
\* argument, or any other single argument that is not a scalar, is the
\* context.
C9_AsStated ==
    Called =>
        LET a == last.inputArgs
        IN  /\ C9_Wrapping(a)
            /\ (Len(a) >= 2 /\ a[2].k \notin {"date", "error"}) => At(Pair, 2) = a[2]
            /\ (Len(a) = 1 /\ a[1].k \notin {"date", "error", "string", "number",
                                              "boolean", "bigint"})
                  => At(Pair, 2) = a[1]

\* C9, amended: a Date or Error is wrapped by position; any other second
\* argument, or any other single argument that is not a string, number,
\* boolean or bigint, is the context, unless the message and it are both
\* empty (undefined, null, a blank string or an object without enumerable
\* keys), when the pair is the "Empty log message" diagnostic.
C9_WrapByPosition ==
    Called =>
        LET a == last.inputArgs
            diagnostic == <<Undefined, Obj([err |-> EmptyLogError])>>
        IN  /\ C9_Wrapping(a)
            /\ (Len(a) >= 2 /\ a[2].k \notin {"date", "error"}) =>
                  IF CountsAsEmpty(a[1]) /\ CountsAsEmpty(a[2])
                  THEN Pair = diagnostic
                  ELSE Pair = <<a[1], a[2]>>
            /\ (Len(a) = 1 /\ a[1].k \notin {"date", "error", "string", "number",
                                              "boolean", "bigint"}) =>
                  IF CountsAsEmpty(a[1])
                  THEN Pair = diagnostic
                  ELSE Pair = <<Undefined, a[1]>>

\* logger.info('hi', new Date(0))
C9_Witness ==
    /\ Called
    /\ last.inputArgs = <<Hi, DateV(0)>>
    /\ Pair = <<Hi, Obj([ts |-> DateV(0)])>>

\* C10 as stated: the message of the normalized pair is a string, a number,
\* a boolean or undefined, and a bigint message is its decimal string.
C10_ScalarMessage ==
    Called =>
        /\ At(Pair, 1).k \in {"string", "number", "boolean", "undefined"}
        /\ (last.inputArgs # <<>> /\ last.inputArgs[1].k = "bigint") =>
              At(Pair, 1) = Str(Rle(last.inputArgs[1].digits))

\* The key paths of the objects and members of a structure.
RECURSIVE KeyPaths(_)
KeyPaths(t) ==
    {<<>>} \cup
    (IF t.k \notin {"object", "array"} THEN {}
     ELSE UNION {{<<key>> \o p : p \in KeyPaths(OwnProps(t)[key])} :
                    key \in DOMAIN OwnProps(t)})

\* The member of a structure at a key path, undefined when there is none.
RECURSIVE TreeAt(_, _)
TreeAt(t, keys) ==
    IF keys = <<>> THEN t
    ELSE IF t.k \in {"object", "array"} /\ keys[1] \in DOMAIN OwnProps(t)
         THEN TreeAt(OwnProps(t)[keys[1]], Tail(keys))
         ELSE Undefined

\* The value a key path leads to in an object graph, and the objects with
\* an identity entered on the way.
RECURSIVE Reach(_, _, _)
Reach(v, keys, entered) ==
    IF keys = <<>> THEN [value |-> v, entered |-> entered]
    ELSE Reach(OwnProps(v)[keys[1]], Tail(keys),
               IF v.k = "ref" THEN entered \cup {v.id} ELSE entered)

\* C11: serializing a record whose context graph holds a cycle ends, in a
\* finite structure that has the marker "[Circular]" exactly where the
\* traversal would enter again an object it is inside, every other member
\* being kept; the size measured is the size of that structure.
C11_CircularMarked ==
    Applied =>
        LET fields == Obj(CandidateFields)
            t      == stringify(fields, {})
        IN  /\ \A p \in KeyPaths(t) :
                  LET r    == Reach(fields, p, {})
                      node == TreeAt(t, p)
                  IN  IF r.value.k = "ref" /\ r.value.id \in r.entered
                      THEN node = CircularMarker
                      ELSE IF r.value.k \in {"object", "ref", "error"}
                      THEN /\ node.k = "object"
                           /\ DOMAIN node.props =
                                 {key \in DOMAIN OwnProps(r.value) :
                                     ~Unserialisable(OwnProps(r.value)[key])}
                      ELSE IF r.value.k = "array"
                      THEN node.k = "array" /\ Len(node.items) = Len(r.value.items)
                      ELSE node = r.value
            /\ last.result.size = ArrayJsonLen(<<t, stringify(At(Pair, 1), {})>>)

\* The README's case: context = { foo: 'bar' }; context.context = context
\* is written { foo, context: { foo, context: '[Circular]' } }.
C11_Witness ==
    /\ Applied
    /\ last.inputArgs = <<Hi, Ref("circ")>>
    /\ last.store.k = "undefined"
    /\ stringify(Obj(Fields), {}) =
          Obj([foo |-> Bar,
               context |-> Obj([foo |-> Bar, context |-> CircularMarker])])

\* What the engine serializes of the fields of the log call in progress,
\* and the ctx it writes.
Unredacted == serialized(Fields)
WrittenCtx == ctxOf(Logger.options, Fields)

Sensitive == {"password", "email"}

\* C12 as stated: in every record written, every field named password or
\* email, at any depth of the context and in objects held in arrays, has
\* the censor for value, and the members next to it keep their values.
C12_RedactedAtAnyDepth ==
    Applied =>
        \A p \in KeyPaths(Unredacted) \ {<<>>} :
            LET key    == p[Len(p)]
                holder == SubSeq(p, 1, Len(p) - 1)
            IN  /\ key \in Sensitive => TreeAt(WrittenCtx, p) = Censor
                /\ (/\ key \notin Sensitive
                    /\ \E other \in Sensitive :
                          holder \o <<other>> \in KeyPaths(Unredacted)
                    /\ userPaths(Logger.options) = {})
                      => TreeAt(WrittenCtx, p) = TreeAt(Unredacted, p)

\* C13 as stated: for every request alias and response alias, every header
\* value of a headers block of a request, of a response or of the request of
\* a response, there or on the err of the record, is written as the censor,
\* whatever paths the user adds.
C13_HeadersRedacted ==
    Applied =>
        \A holder \in HeaderHolders, prefix \in {<<>>, <<"err">>} :
            LET block == prefix \o holder \o <<"headers">>
            IN  block \in KeyPaths(Unredacted) =>
                  \A name \in DOMAIN OwnProps(TreeAt(Unredacted, block)) :
                      TreeAt(WrittenCtx, block \o <<name>>) = Censor

\* C14 as stated: whenever the explicit context carries an error under err
\* or under error, with or without a message, the context written carries
\* that error under err, has no error key, and keeps every other key.
C14_ErrorUnderErr ==
    NotOversize =>
        LET explicit == OwnProps(ExplicitContext)
        IN  \A key \in {"err", "error"} :
                (key \in DOMAIN explicit /\ explicit[key].k = "error") =>
                    /\ TreeAt(Unredacted, <<"err">>) =
                          stringify(errSerializer(explicit[key]), {})
                    /\ "error" \notin DOMAIN Unredacted.props
                    /\ \A other \in DOMAIN Fields \ {"err", "error"} :
                          ~Unserialisable(Fields[other]) =>
                              TreeAt(Unredacted, <<other>>) = stringify(Fields[other], {})

\* A step is a log call being made, or a 'message' event being emitted.
Calling  == last = None /\ last'.k = "call"
Emitting == last = None /\ last'.k = "message"

\* The transports of the loggers other than one are left as they are.
OthersKeep(logger) ==
    \A other \in 1..Len(loggers) \ {logger} : transport'[other] = transport[other]

\* A log call writes its record once to the test target of its own logger
\* when the record is assembled and at or above the target's level, and
\* nothing otherwise; a 'message' event is emitted on the logger whose
\* transport posts it, carries the oldest record written there and takes it
\* out; no other step touches the records in flight.
C15_Step ==
    /\ Calling =>
          LET logger  == last'.logger
              options == loggers[logger].options
              due     == /\ last'.result.k = "applied"
                         /\ "post-message-transport" \in
                               {loggers[logger].targets[i] :
                                   i \in 1..Len(loggers[logger].targets)}
                         /\ LevelNumber[last'.level] >= LevelNumber[testLevelOf(options)]
          IN  /\ transport'[logger] =
                    IF due
                    THEN Append(transport[logger],
                                Record(options, last'.level, last'.result.args))
                    ELSE transport[logger]
              /\ OthersKeep(logger)
    /\ Emitting =>
          \E logger \in 1..Len(loggers) :
              /\ transport[logger] # <<>>
              /\ last'.logger = logger
              /\ last'.record = Head(transport[logger])
              /\ transport'[logger] = Tail(transport[logger])
              /\ OthersKeep(logger)
    /\ (~Calling /\ ~Emitting) =>
          \A logger \in 1..Len(loggers) : transport'[logger] = transport[logger]

\* Every record in flight is emitted in the end, on its logger.
C15_Posted ==
    \A logger \in 1..MaxLoggers :
        (logger <= Len(loggers) /\ transport[logger] # <<>>)
            ~> (last.k = "message" /\ last.logger = logger)

\* C15: with the test sink enabled, every record assembled for a log call
\* at or above the sink's level causes exactly one 'message' event, on the
\* logger that made the call and carrying that record: none is lost, none
\* is delivered twice, none goes to the subscribers of another logger.
C15_ExactlyOnce == [][C15_Step]_vars /\ C15_Posted

\* The first of two loggers emits the record of its info call while a
\* record of the second is in flight.
C15_Witness ==
    /\ Len(loggers) = 2
    /\ last.k = "message"
    /\ last.logger = 1
    /\ last.record = [level |-> 30, severity |-> "info",
                      ctx |-> Obj([foo |-> Bar]), msg |-> Hi]
    /\ transport[2] # <<>>

\* The sinks of a logger.
Sinks(i) == {loggers[i].targets[j] : j \in 1..Len(loggers[i].targets)}

Resolved == resolveArgs(last.inputArgs)

\* C17 as stated: the pair is replaced by the "Empty log message"
\* diagnostic if and only if the resolved message is undefined or a blank
\* string and the resolved context is undefined, null or an object without
\* enumerable keys; every other resolved pair is passed on unchanged.
C17_AsStated ==
    Called =>
        IF SpecEmptyMessage(At(Resolved, 1)) /\ SpecEmptyContext(At(Resolved, 2))
        THEN Pair = <<Undefined, Obj([err |-> EmptyLogError])>>
        ELSE Pair = Resolved

\* C17, amended: the pair is replaced by the "Empty log message" diagnostic
\* if and only if the resolved message and the resolved context are each
\* undefined, null, a blank string or an object without enumerable keys;
\* every other resolved pair is passed on unchanged.
C17_DegenerateIff ==
    Called =>
        IF CountsAsEmpty(At(Resolved, 1)) /\ CountsAsEmpty(At(Resolved, 2))
        THEN Pair = <<Undefined, Obj([err |-> EmptyLogError])>>
        ELSE Pair = Resolved

\* logger.info(' \t', { foo: 'b' }): a blank message with a context that is
\* not empty is passed on.
C17_Witness ==
    /\ Called
    /\ last.inputArgs = <<Blank, FooBar>>
    /\ Pair = <<Blank, FooBar>>

\* C18: the record that replaces an oversize record holds only the err
\* diagnostic, without any key or value of the explicit or of the ambient
\* context and without the original message, its message being the
\* diagnostic's; the "Empty log message" diagnostic that is not oversize
\* carries the keys of the ambient context merged with its err.
C18_NoOriginalContent ==
    /\ (Applied /\ last.result.size > Logger.maxSize) =>
          LET text == OversizeMessage(last.result.size, Logger.maxSize)
          IN  /\ Len(last.result.args) = 1
              /\ Fields = [err |-> Err(text, "fail", <<>>)]
              /\ Message = Undefined
              /\ Unredacted = Obj([err |-> errSerializer(Err(text, "fail", <<>>))])
              /\ EngineMsg(last.result.args) = Str(text)
    /\ (NotOversize /\ EmptyCall(last.inputArgs)) =>
          LET ambient == AmbientProps(last.chain, Logger.als)
          IN  /\ DOMAIN Fields = DOMAIN ambient \cup {"err"}
              /\ Fields.err = EmptyLogError
              /\ \A key \in DOMAIN ambient \ {"err"} : Fields[key] = ambient[key]

\* logger.info('hi', { foo: 'b' }) inside als.run({ x: 'x' * 10000 }, ...):
\* the record is oversize and what replaces it has neither x nor foo nor 'hi'.
C18_Witness ==
    /\ Applied
    /\ last.inputArgs = <<Hi, FooBar>>
    /\ last.store = BigObj
    /\ last.result.size > Logger.maxSize
    /\ DOMAIN Fields = {"err"}
    /\ Message = Undefined

\* The instances on which the calling chain has an active scope.
ScopedAls == {stack[last.chain][i].als : i \in 1..Len(stack[last.chain])}

\* The exported pair is that of the latest init; each logger's instance is
\* the one injected at its init, or one of its own; a log call reads the
\* ambient context of its logger's instance, so that a scope on the exported
\* instance alone shows in an earlier logger's record only if that logger
\* was given the same instance.
C19_State ==
    /\ loggers # <<>> =>
          /\ exported.logger = Len(loggers)
          /\ exported.als = Als(loggers[Len(loggers)].als)
    /\ \A i \in 1..Len(loggers) :
          IF "als" \in DOMAIN loggers[i].options
          THEN loggers[i].als = loggers[i].options.als.id
          ELSE /\ loggers[i].als # UserAls
               /\ \A j \in 1..Len(loggers) \ {i} : loggers[j].als # loggers[i].als
    /\ NotOversize =>
          /\ IsUnion(Fields, AmbientProps(last.chain, Logger.als),
                     OwnProps(ExplicitContext))
          /\ (ScopedAls = {exported.als.id} /\ Logger.als # exported.als.id)
                => Fields = OwnProps(ExplicitContext)

\* No step changes a logger there is, nor the exported pair unless it is
\* an init.
C19_Step ==
    /\ \A i \in 1..Len(loggers) : loggers'[i] = loggers[i]
    /\ Len(loggers') = Len(loggers) => exported' = exported

\* C19: after any sequence of init calls the exported logger and als are
\* those of the latest one, and each logger reads the ambient context of the
\* instance bound at its own init for its whole life, whatever init follows.
C19_OwnStore == [](C19_State) /\ [][C19_Step]_vars

\* The first logger logs ('hi', { foo: 'b' }) inside a scope of the als the
\* second init exported: the scope's store does not show.
C19_Witness ==
    /\ Applied
    /\ Len(loggers) = 2
    /\ last.logger = 1
    /\ Logger.als # exported.als.id
    /\ stack[last.chain] = <<[als |-> exported.als.id, store |-> TracerFoo, ended |-> None]>>
    /\ last.inputArgs = <<Hi, FooBar>>
    /\ Fields = [foo |-> Bar]
====
